---- MODULE Spec2Model ----
(***************************************************************************)
(* Meshtastic-Weather: transport acquisition (config_init.get_interface)   *)
(* and the polling loops of server.main and message_processing.main.       *)
(*                                                                         *)
(* Python values: None is the string "None"; a key that a dict does not    *)
(* hold maps to Absent, and reading it with d[k] raises KeyError.          *)
(***************************************************************************)
EXTENDS Integers, Sequences, FiniteSets, TLC

\* ---------------------------------------------------------------- bounds
MaxRetries == 2      \* retries explored per get_interface call
MaxCycles  == 2      \* polling cycles explored per run
MaxAlerts  == 2      \* features in one feed response

\* ------------------------------------------------------ program constants
RetryDelay == 5      \* time.sleep(5) in get_interface

None   == "None"
Absent == "<absent>"

Truthy(v) == v \notin {None, ""}

\* ------------------------------------------------- configuration (inputs)
ConfigKeys == {"interface_type", "hostname", "port", "location", "host", "state"}

\* [interface] section of the config file as configparser returns it
FileCfgs ==
  [hasInterface : {TRUE},
   type     : {None, "serial", "tcp", "usb"},
   hostname : {None, "", "mesh.local"},
   port     : {None, "/dev/ttyUSB0"},
   location : {None, "WI"}]
  \cup
  [hasInterface : {FALSE}, type : {None}, hostname : {None},
   port : {None}, location : {None}]

\* argparse namespace: every option defaults to None, --location is required
ArgSets ==
  [interface_type : {None, "serial", "tcp"},
   port     : {None, "/dev/ttyACM0"},
   host     : {None, "10.0.0.5"},
   location : {"IL"}]

\* serial.tools.list_ports.comports(): the devices present, in listing order
PortLists == { <<>>, <<"/dev/ttyUSB0">>, <<"/dev/ttyACM0">>,
               <<"/dev/ttyACM0", "/dev/ttyUSB0">> }

EmptyConfig == [k \in ConfigKeys |-> Absent]

\* initialize_config: the dict built from the parsed file
initialize_config(f) ==
  [k \in ConfigKeys |->
     CASE k = "interface_type" -> f.type
       [] k = "hostname"       -> f.hostname
       [] k = "port"           -> f.port
       [] k = "location"       -> f.location
       [] OTHER                -> Absent]

\* merge_config: CLI values that are not None are stored under the CLI's names
merge_config(sc, a) ==
  [k \in ConfigKeys |->
     CASE k = "interface_type" /\ a.interface_type # None -> a.interface_type
       [] k = "port"     /\ a.port # None     -> a.port
       [] k = "host"     /\ a.host # None     -> a.host
       [] k = "location" /\ a.location # None -> a.location
       [] OTHER -> sc[k]]

\* ------------------------------------------------------- get_interface
\* Select with the first of several ports opened instead of an error
Select_first(sc, ps) ==
  IF sc["interface_type"] = "serial" THEN
    IF Truthy(sc["port"]) THEN
      [act |-> "open", kind |-> "serial", target |-> sc["port"], enum |-> FALSE,
       err |-> "none", names |-> <<>>]
    ELSE IF Len(ps) >= 1 THEN
      [act |-> "open", kind |-> "serial", target |-> ps[1], enum |-> TRUE,
       err |-> "none", names |-> <<>>]
    ELSE
      [act |-> "raise", kind |-> "serial", target |-> None, enum |-> TRUE,
       err |-> "NoPorts", names |-> <<>>]
  ELSE IF sc["interface_type"] = "tcp" THEN
    IF ~Truthy(sc["hostname"]) THEN
      [act |-> "raise", kind |-> "tcp", target |-> None, enum |-> FALSE,
       err |-> "MissingHostname", names |-> <<>>]
    ELSE
      [act |-> "open", kind |-> "tcp", target |-> sc["hostname"], enum |-> FALSE,
       err |-> "none", names |-> <<>>]
  ELSE
    [act |-> "raise", kind |-> "none", target |-> None, enum |-> FALSE,
     err |-> "InvalidType", names |-> <<>>]

\* Select with the single enumerated port opened through the configured
\* (empty) port entry instead of the enumerated device
Select_portField(sc, ps) ==
  IF sc["interface_type"] = "serial" THEN
    IF Truthy(sc["port"]) \/ Len(ps) = 1 THEN
      [act |-> "open", kind |-> "serial", target |-> sc["port"],
       enum |-> ~Truthy(sc["port"]), err |-> "none", names |-> <<>>]
    ELSE IF Len(ps) > 1 THEN
      [act |-> "raise", kind |-> "serial", target |-> None, enum |-> TRUE,
       err |-> "MultiplePorts", names |-> ps]
    ELSE
      [act |-> "raise", kind |-> "serial", target |-> None, enum |-> TRUE,
       err |-> "NoPorts", names |-> <<>>]
  ELSE IF sc["interface_type"] = "tcp" THEN
    IF ~Truthy(sc["hostname"]) THEN
      [act |-> "raise", kind |-> "tcp", target |-> None, enum |-> FALSE,
       err |-> "MissingHostname", names |-> <<>>]
    ELSE
      [act |-> "open", kind |-> "tcp", target |-> sc["hostname"], enum |-> FALSE,
       err |-> "none", names |-> <<>>]
  ELSE
    [act |-> "raise", kind |-> "none", target |-> None, enum |-> FALSE,
     err |-> "InvalidType", names |-> <<>>]

\* Select with the ports enumerated before the configured port is looked at
Select_enumFirst(sc, ps) ==
  IF sc["interface_type"] = "serial" THEN
    IF Len(ps) = 0 THEN
      [act |-> "raise", kind |-> "serial", target |-> None, enum |-> TRUE,
       err |-> "NoPorts", names |-> <<>>]
    ELSE IF Truthy(sc["port"]) THEN
      [act |-> "open", kind |-> "serial", target |-> sc["port"], enum |-> TRUE,
       err |-> "none", names |-> <<>>]
    ELSE IF Len(ps) = 1 THEN
      [act |-> "open", kind |-> "serial", target |-> ps[1], enum |-> TRUE,
       err |-> "none", names |-> <<>>]
    ELSE
      [act |-> "raise", kind |-> "serial", target |-> None, enum |-> TRUE,
       err |-> "MultiplePorts", names |-> ps]
  ELSE IF sc["interface_type"] = "tcp" THEN
    IF ~Truthy(sc["hostname"]) THEN
      [act |-> "raise", kind |-> "tcp", target |-> None, enum |-> FALSE,
       err |-> "MissingHostname", names |-> <<>>]
    ELSE
      [act |-> "open", kind |-> "tcp", target |-> sc["hostname"], enum |-> FALSE,
       err |-> "none", names |-> <<>>]
  ELSE
    [act |-> "raise", kind |-> "none", target |-> None, enum |-> FALSE,
     err |-> "InvalidType", names |-> <<>>]

\* One pass of the body of `while True: try:` up to the open call or raise.
\* The result says what the pass does: open a transport, or raise ValueError.
Select(sc, ps) ==
  IF sc["interface_type"] = "serial" THEN
    IF Truthy(sc["port"]) THEN
      [act |-> "open", kind |-> "serial", target |-> sc["port"], enum |-> FALSE,
       err |-> "none", names |-> <<>>]
    ELSE IF Len(ps) = 1 THEN
      [act |-> "open", kind |-> "serial", target |-> ps[1], enum |-> TRUE,
       err |-> "none", names |-> <<>>]
    ELSE IF Len(ps) > 1 THEN
      [act |-> "raise", kind |-> "serial", target |-> None, enum |-> TRUE,
       err |-> "MultiplePorts", names |-> ps]
    ELSE
      [act |-> "raise", kind |-> "serial", target |-> None, enum |-> TRUE,
       err |-> "NoPorts", names |-> <<>>]
  ELSE IF sc["interface_type"] = "tcp" THEN
    IF ~Truthy(sc["hostname"]) THEN
      [act |-> "raise", kind |-> "tcp", target |-> None, enum |-> FALSE,
       err |-> "MissingHostname", names |-> <<>>]
    ELSE
      [act |-> "open", kind |-> "tcp", target |-> sc["hostname"], enum |-> FALSE,
       err |-> "none", names |-> <<>>]
  ELSE
    [act |-> "raise", kind |-> "none", target |-> None, enum |-> FALSE,
     err |-> "InvalidType", names |-> <<>>]

\* what a transport-open call can do
OpenOutcomes == {"ok", "PermissionError", "OSError"}

\* the handler catching nothing / catching every exception
IsRetried_none(e) == FALSE
IsRetried_any(e)  == TRUE

\* except PermissionError: the only exception the loop of get_interface catches
IsRetried(e) == e = "PermissionError"

\* ------------------------------------------------------------ the feed
Fields == {"event", "headline", "description", "instruction"}

\* One element of the feed's `features` array.  props says whether the
\* element has a 'properties' dict, lacks the key, or holds JSON null; have
\* is the set of keys the properties dict holds.  The value of key f of
\* alert a is <<a.id, f>>.
AlertVals ==
  { [id |-> "a", props |-> "dict",   have |-> Fields],
    [id |-> "b", props |-> "dict",   have |-> Fields],
    [id |-> "c", props |-> "dict",   have |-> {"event", "description"}],
    [id |-> "d", props |-> "absent", have |-> {}],
    [id |-> "e", props |-> "null",   have |-> {}] }

RECURSIVE SeqsUpTo(_, _)
SeqsUpTo(S, n) ==
  IF n = 0 THEN { <<>> }
  ELSE LET shorter == SeqsUpTo(S, n - 1) IN
       shorter \cup { Append(q, x) : q \in { t \in shorter : Len(t) = n - 1 }, x \in S }

FeatureLists == SeqsUpTo(AlertVals, MaxAlerts)

\* What requests.get and response.json() can deliver for one request.
\*   net  : "ok", or "ConnectionError" when requests.get raises
\*   body : "features" (JSON object with a features array), "nofeatures"
\*          (JSON object without that key), "malformed" (json() raises)
FeedResponses ==
  { [net |-> "ConnectionError", status |-> 0, body |-> "malformed", features |-> <<>>] }
  \cup [net : {"ok"}, status : {404, 503}, body : {"malformed"}, features : { <<>> }]
  \cup [net : {"ok"}, status : {200}, body : {"malformed", "nofeatures"}, features : { <<>> }]
  \cup [net : {"ok"}, status : {200}, body : {"features"}, features : FeatureLists]

NoResp == [net |-> "none", status |-> 0, body |-> "malformed", features |-> <<>>]

Returned(v) == [raised |-> "none", value |-> v]
Raised(e)   == [raised |-> e, value |-> <<>>]

\* response.json().get('features', [])
JsonFeatures(resp) ==
  CASE resp.body = "malformed"  -> Raised("JSONDecodeError")
    [] resp.body = "nofeatures" -> Returned(<<>>)
    [] OTHER                    -> Returned(resp.features)

\* message_processing.fetch_weather_alerts
mp_fetch_weather_alerts(resp) ==
  IF resp.net # "ok" THEN Raised(resp.net)
  ELSE IF resp.status = 200 THEN JsonFeatures(resp)
  ELSE Returned(<<>>)

\* server.fetch_weather_alerts: raise_for_status() raises HTTPError on 4xx/5xx
srv_fetch_weather_alerts(resp) ==
  IF resp.net # "ok" THEN Raised(resp.net)
  ELSE IF resp.status >= 400 THEN Raised("HTTPError")
  ELSE JsonFeatures(resp)

\* config_init.fetch_weather_alerts returns the whole document, or {};
\* broadcast_weather_alerts sends only what `features` holds, so the value
\* kept here is the features the returned dict carries.
ci_fetch_weather_alerts(resp) ==
  IF resp.net # "ok" THEN Raised(resp.net)
  ELSE IF resp.status = 200 THEN
    (IF resp.body = "malformed" THEN Raised("JSONDecodeError")
     ELSE IF resp.body = "nofeatures" THEN Returned(<<>>)
     ELSE Returned(resp.features))
  ELSE Returned(<<>>)

\* meshtastic.BROADCAST_NUM (0xFFFFFFFF), the address of every node
BROADCAST_NUM == "BROADCAST_NUM"

\* dict.get(f, default) on the properties of alert a
Get(a, f, default) == IF f \in a.have THEN <<a.id, f>> ELSE default

\* message_processing.format_alert_message; the message is the tuple of the
\* template's parts in template order
format_alert_message(a) ==
  IF a.props = "null" THEN Raised("AttributeError")   \* None.get(...)
  ELSE Returned(<< "Weather Alert",
                   "Headline", Get(a, "headline", "No headline"),
                   "Description", Get(a, "description", "No description"),
                   "Instruction", Get(a, "instruction", "No instruction") >>)

\* server.broadcast_alerts lines 30-31: alert['properties'], properties[...]
srv_format(a) ==
  IF a.props = "absent" THEN Raised("KeyError")
  ELSE IF a.props = "null" THEN Raised("TypeError")
  ELSE IF ~({"event", "headline", "description"} \subseteq a.have) THEN Raised("KeyError")
  ELSE Returned(<< "Weather Alert", <<a.id, "event">>, <<a.id, "headline">>,
                   <<a.id, "description">> >>)

\* what one transport send can do
SendOutcomes == {"ok", "SendFailure"}

NoIface == [status |-> "none", kind |-> "none", target |-> None]

VARIABLES
  prog,          \* entry point running: "server" | "mp"
  pc,            \* position in the program
  exit,          \* "running" | "returned" (main returned, status 0) | "uncaught"
  cause,         \* the exception that ended the program or was handled last
  args, file,    \* CLI namespace and config file
  system_config, \* the configuration dict
  ports,         \* devices currently present (environment)
  iface,         \* the transport handle
  opens,         \* transport-open calls made
  delays,        \* time.sleep(5) calls made by get_interface
  delaySecs,     \* seconds slept by get_interface
  passes,        \* passes of the get_interface loop
  enums,         \* comports() calls made
  lastEnum,      \* what the latest comports() call returned
  permCount,     \* opens that raised PermissionError
  portsChanged,  \* the set of ports changed during get_interface
  lastSel,       \* Select result of the latest pass
  lastOpen,      \* outcome of the latest open call, or "none"
  errNames,      \* port names carried by the raised ValueError
  state,         \* location code the loop fetches for
  cycle,         \* cycles started
  lastResp,      \* the feed's response in the current cycle
  fetchRes,      \* what the fetch function did with it
  alerts,        \* alerts of the current cycle
  idx,           \* next alert of the for loop
  sent,          \* sends accepted by the transport in the current cycle
  attempted,     \* indices of the alerts given a send call in the current cycle
  sleeps,        \* interval sleeps completed
  closes,        \* interface.close() calls
  handles,       \* transport handles currently open
  seen,          \* ids of the alerts sent in earlier cycles
  cycleErr,      \* exception raised in the current cycle, or "none"
  intrAt         \* position at which KeyboardInterrupt arrived, or "none"

giv   == <<opens, delays, delaySecs, passes, enums, lastEnum, permCount, portsChanged,
           lastSel, lastOpen, errNames>>
loopv == <<cycle, lastResp, fetchRes, alerts, idx, sent, attempted, sleeps, seen,
           cycleErr>>
vars  == <<prog, pc, exit, cause, args, file, system_config, ports, iface,
           state, closes, handles, intrAt, giv, loopv>>

NoSel == [act |-> "none", kind |-> "none", target |-> None, enum |-> FALSE,
          err |-> "none", names |-> <<>>]

GIStart ==
  /\ opens = 0 /\ delays = 0 /\ delaySecs = 0 /\ passes = 0 /\ enums = 0
  /\ permCount = 0 /\ portsChanged = FALSE /\ lastEnum = <<>>
  /\ lastSel = NoSel /\ lastOpen = "none" /\ errNames = <<>>

LoopStart ==
  /\ cycle = 0 /\ lastResp = NoResp /\ fetchRes = Returned(<<>>)
  /\ alerts = <<>> /\ idx = 1 /\ sent = <<>> /\ attempted = {}
  /\ sleeps = 0 /\ cycleErr = "none" /\ seen = {}

\* server.main started from the command line
InitServer ==
  /\ prog = "server" /\ pc = "srv_init"
  /\ args \in ArgSets /\ file \in FileCfgs
  /\ system_config = EmptyConfig
  /\ ports \in PortLists
  /\ iface = NoIface /\ handles = 0 /\ state = None

DefaultArgs == [interface_type |-> None, port |-> None, host |-> None, location |-> "IL"]
DefaultFile == [hasInterface |-> TRUE, type |-> "serial", hostname |-> None,
                port |-> "/dev/ttyUSB0", location |-> None]
OpenIfaces  == { [status |-> "open", kind |-> "serial", target |-> "/dev/ttyUSB0"],
                 [status |-> "open", kind |-> "tcp", target |-> "mesh.local"] }

\* message_processing.main(interface, state, interval): the caller passes an
\* open interface and the state code
InitMp ==
  /\ prog = "mp" /\ pc = "mp_fetch"
  /\ args = DefaultArgs /\ file = DefaultFile
  /\ system_config = EmptyConfig
  /\ ports = <<"/dev/ttyUSB0">>
  /\ iface \in OpenIfaces /\ handles = 1 /\ state = "IL"

Init ==
  /\ exit = "running" /\ cause = "none"
  /\ closes = 0 /\ intrAt = "none"
  /\ GIStart /\ LoopStart
  /\ (InitServer \/ InitMp)

\* The exception e leaves the entry point uncaught: traceback, non-zero status
Uncaught(e) == exit' = "uncaught" /\ cause' = e /\ pc' = "done"

\* server.main lines 36-39: parse the CLI, read the file, merge
SrvInit ==
  /\ prog = "server" /\ pc = "srv_init" /\ exit = "running"
  /\ IF file.hasInterface
       THEN /\ system_config' = merge_config(initialize_config(file), args)
            /\ pc' = "gi_try"
            /\ UNCHANGED <<exit, cause>>
       ELSE \* config['interface'] raises KeyError
            /\ Uncaught("KeyError:interface")
            /\ UNCHANGED system_config
  /\ UNCHANGED <<prog, args, file, ports, iface, handles, state, closes, intrAt,
                 giv, loopv>>

\* one pass of get_interface's loop body: the selection, then either the
\* ValueError it raises or the open call and what that call does
GIPassWith(ps, ret) ==
  /\ pc = "gi_try" /\ exit = "running"
  /\ passes <= MaxRetries
  /\ LET s == Select(system_config, ps) IN
     /\ lastSel' = s
     /\ passes' = passes + 1
     /\ enums' = IF s.enum THEN enums + 1 ELSE enums
     /\ lastEnum' = IF s.enum THEN ps ELSE lastEnum
     /\ \E o \in (IF s.act = "raise" THEN {"ValueError"} ELSE OpenOutcomes) :
          /\ opens' = IF s.act = "open" THEN opens + 1 ELSE opens
          /\ lastOpen' = IF s.act = "open" THEN o ELSE "none"
          /\ errNames' = IF s.act = "raise" THEN s.names ELSE errNames
          /\ permCount' = IF o = "PermissionError" THEN permCount + 1 ELSE permCount
          /\ handles' = IF o = "ok" THEN handles + 1 ELSE handles
          /\ IF o = "ok"
               THEN \* return the interface
                    /\ iface' = [status |-> "open", kind |-> s.kind,
                                 target |-> s.target]
                    /\ pc' = ret
                    /\ UNCHANGED <<exit, cause>>
               ELSE IF IsRetried(o)
               THEN /\ pc' = "gi_sleep"
                    /\ cause' = o
                    /\ UNCHANGED <<exit, iface>>
               ELSE \* not caught: it leaves get_interface and main
                    /\ Uncaught(IF o = "ValueError" THEN s.err ELSE o)
                    /\ UNCHANGED iface
  /\ UNCHANGED <<prog, args, file, system_config, ports, state, closes,
                 intrAt, delays, delaySecs, portsChanged, loopv>>

\* a pass that keeps looping after a successful open instead of returning
GIPass_noReturn == GIPassWith(ports, "gi_try")

\* a pass that enumerates the ports on the first pass only
GIPass_cached == GIPassWith(IF passes = 0 THEN ports ELSE lastEnum, "srv_lookup")

\* the pass as written: comports() is called in the pass, and the open's
\* result is returned to server.main line 41
GIPass == GIPassWith(ports, "srv_lookup")

\* except PermissionError: print, time.sleep(5), loop
GISleep ==
  /\ pc = "gi_sleep" /\ exit = "running"
  /\ delays' = delays + 1
  /\ delaySecs' = delaySecs + RetryDelay
  /\ pc' = "gi_try"
  /\ UNCHANGED <<prog, exit, cause, args, file, system_config, ports, iface, handles,
                 state, closes, intrAt, opens, passes, enums, lastEnum,
                 permCount, portsChanged, lastSel, lastOpen, errNames, loopv>>

\* environment: a device is plugged or unplugged while get_interface waits
PortsChange ==
  /\ pc = "gi_sleep" /\ exit = "running"
  /\ \E ps \in PortLists \ {ports} : ports' = ps
  /\ portsChanged' = TRUE
  /\ UNCHANGED <<prog, pc, exit, cause, args, file, system_config, iface, handles,
                 state, closes, intrAt, opens, delays, delaySecs,
                 passes, enums, lastEnum, permCount, lastSel, lastOpen, errNames, loopv>>

\* server.main line 42: state = system_config['state']
SrvLookup ==
  /\ prog = "server" /\ pc = "srv_lookup" /\ exit = "running"
  /\ IF system_config["state"] = Absent
       THEN Uncaught("KeyError:state") /\ UNCHANGED state
       ELSE /\ pc' = "srv_fetch" /\ state' = system_config["state"]
            /\ UNCHANGED <<exit, cause>>
  /\ UNCHANGED <<prog, args, file, system_config, ports, iface, handles, closes,
                 intrAt, giv, loopv>>

\* ------------------------------------------------ message_processing.main
\* The destination and text one call of utils.send_message hands to the
\* transport
send_message(message, destination) == [text |-> message, dest |-> destination]

\* except Exception (line 57): log, and the while loop starts over; the
\* time.sleep of line 56 is skipped
MpCaught(e) == cause' = e /\ cycleErr' = e /\ pc' = "mp_fetch"

\* broadcast_weather_alerts line 29: fetch for the cycle
MpFetch ==
  /\ prog = "mp" /\ pc = "mp_fetch" /\ exit = "running"
  /\ cycle < MaxCycles
  /\ \E resp \in FeedResponses :
       LET r == mp_fetch_weather_alerts(resp) IN
       /\ cycle' = cycle + 1
       /\ lastResp' = resp /\ fetchRes' = r
       /\ alerts' = r.value /\ idx' = 1 /\ sent' = <<>> /\ attempted' = {}
       /\ seen' = seen \cup { alerts[i].id : i \in 1 .. Len(sent) }
       /\ IF r.raised # "none" THEN MpCaught(r.raised)
          ELSE /\ cycleErr' = "none" /\ cause' = cause
               /\ pc' = IF Len(r.value) = 0 THEN "mp_sleep" ELSE "mp_send"
  /\ UNCHANGED <<prog, exit, args, file, system_config, ports, iface, handles, state,
                 closes, intrAt, giv, sleeps>>

\* the for loop with alerts sent in an earlier cycle skipped
MpSend_dedup ==
  /\ prog = "mp" /\ pc = "mp_send" /\ exit = "running"
  /\ idx <= Len(alerts)
  /\ LET m == format_alert_message(alerts[idx]) IN
     IF alerts[idx].id \in seen
       THEN /\ idx' = idx + 1
            /\ pc' = IF idx = Len(alerts) THEN "mp_sleep" ELSE "mp_send"
            /\ UNCHANGED <<cause, cycleErr, sent, attempted>>
     ELSE IF m.raised # "none"
       THEN /\ MpCaught(m.raised)
            /\ UNCHANGED <<idx, sent, attempted>>
       ELSE \E o \in SendOutcomes :
            /\ attempted' = attempted \cup {idx}
            /\ IF o = "ok"
                 THEN /\ sent' = Append(sent, send_message(m.value, BROADCAST_NUM))
                      /\ idx' = idx + 1
                      /\ pc' = IF idx = Len(alerts) THEN "mp_sleep" ELSE "mp_send"
                      /\ UNCHANGED <<cause, cycleErr>>
                 ELSE /\ MpCaught(o)
                      /\ UNCHANGED <<idx, sent>>
  /\ UNCHANGED <<prog, exit, args, file, system_config, ports, iface, handles, state,
                 closes, intrAt, giv, cycle, lastResp, fetchRes, alerts, sleeps, seen>>

\* broadcast_weather_alerts lines 30-32: one iteration of the for loop
MpSend ==
  /\ prog = "mp" /\ pc = "mp_send" /\ exit = "running"
  /\ idx <= Len(alerts)
  /\ LET m == format_alert_message(alerts[idx]) IN
     IF m.raised # "none"
       THEN /\ MpCaught(m.raised)
            /\ UNCHANGED <<idx, sent, attempted>>
       ELSE \E o \in SendOutcomes :
            /\ attempted' = attempted \cup {idx}
            /\ IF o = "ok"
                 THEN /\ sent' = Append(sent, send_message(m.value, BROADCAST_NUM))
                      /\ idx' = idx + 1
                      /\ pc' = IF idx = Len(alerts) THEN "mp_sleep" ELSE "mp_send"
                      /\ UNCHANGED <<cause, cycleErr>>
                 ELSE /\ MpCaught(o)
                      /\ UNCHANGED <<idx, sent>>
  /\ UNCHANGED <<prog, exit, args, file, system_config, ports, iface, handles, state,
                 closes, intrAt, giv, cycle, lastResp, fetchRes, alerts, sleeps, seen>>

\* line 56: time.sleep(interval) runs to its end
MpSleep ==
  /\ prog = "mp" /\ pc = "mp_sleep" /\ exit = "running"
  /\ sleeps' = sleeps + 1
  /\ pc' = "mp_fetch"
  /\ UNCHANGED <<prog, exit, cause, args, file, system_config, ports, iface, handles,
                 state, closes, intrAt, giv, cycle, lastResp, fetchRes, alerts,
                 idx, sent, attempted, cycleErr, seen>>

\* ------------------------------------------------------- server.main loop
\* a handler that closes the interface and lets the loop go on
SrvHandler_continue(e) ==
  /\ cause' = e
  /\ closes' = closes + 1
  /\ iface' = [iface EXCEPT !.status = "closed"]
  /\ handles' = IF iface.status = "open" THEN handles - 1 ELSE handles
  /\ exit' = exit /\ pc' = "srv_sleep"

\* except KeyboardInterrupt / except Exception (lines 54-59): log, close the
\* interface, and main returns
SrvHandler(e) ==
  /\ cause' = e
  /\ closes' = closes + 1
  /\ iface' = [iface EXCEPT !.status = "closed"]
  /\ handles' = IF iface.status = "open" THEN handles - 1 ELSE handles
  /\ exit' = "returned" /\ pc' = "done"

\* line 48: alerts = fetch_weather_alerts(state); lines 49-52
SrvFetch ==
  /\ prog = "server" /\ pc = "srv_fetch" /\ exit = "running"
  /\ cycle < MaxCycles
  /\ \E resp \in FeedResponses :
       LET r == srv_fetch_weather_alerts(resp) IN
       /\ cycle' = cycle + 1
       /\ lastResp' = resp /\ fetchRes' = r
       /\ alerts' = r.value /\ idx' = 1 /\ sent' = <<>> /\ attempted' = {}
       /\ seen' = seen \cup { alerts[i].id : i \in 1 .. Len(sent) }
       /\ IF r.raised # "none"
            THEN SrvHandler(r.raised) /\ cycleErr' = r.raised
            ELSE /\ cycleErr' = "none"
                 /\ pc' = IF Len(r.value) = 0 THEN "srv_sleep" ELSE "srv_send"
                 /\ UNCHANGED <<cause, closes, iface, handles, exit>>
  /\ UNCHANGED <<prog, args, file, system_config, ports, state, intrAt, giv,
                 sleeps>>

\* broadcast_alerts lines 29-33: one iteration of the for loop
SrvSend ==
  /\ prog = "server" /\ pc = "srv_send" /\ exit = "running"
  /\ idx <= Len(alerts)
  /\ LET m == srv_format(alerts[idx]) IN
     IF m.raised # "none"
       THEN /\ SrvHandler(m.raised) /\ cycleErr' = m.raised
            /\ UNCHANGED <<idx, sent, attempted>>
       ELSE \E o \in SendOutcomes :
            /\ attempted' = attempted \cup {idx}
            /\ IF o = "ok"
                 THEN /\ sent' = Append(sent, [text |-> m.value, dest |-> BROADCAST_NUM])
                      /\ idx' = idx + 1
                      /\ pc' = IF idx = Len(alerts) THEN "srv_sleep" ELSE "srv_send"
                      /\ UNCHANGED <<cause, cycleErr, closes, iface, handles, exit>>
                 ELSE /\ SrvHandler(o) /\ cycleErr' = o
                      /\ UNCHANGED <<idx, sent>>
  /\ UNCHANGED <<prog, args, file, system_config, ports, state, intrAt, giv,
                 cycle, lastResp, fetchRes, alerts, sleeps, seen>>

\* line 53: time.sleep(600) runs to its end
SrvSleep ==
  /\ prog = "server" /\ pc = "srv_sleep" /\ exit = "running"
  /\ sleeps' = sleeps + 1
  /\ pc' = "srv_fetch"
  /\ UNCHANGED <<prog, exit, cause, args, file, system_config, ports, iface, handles,
                 state, closes, intrAt, giv, cycle, lastResp, fetchRes, alerts,
                 idx, sent, attempted, cycleErr, seen>>

\* ------------------------------------------------------ operator interrupt
\* positions inside the try statement of server.main (lines 46-53)
SrvTry == {"srv_fetch", "srv_send", "srv_sleep"}
Interruptible == {"gi_try", "gi_sleep", "srv_lookup", "mp_fetch", "mp_send",
                  "mp_sleep"} \cup SrvTry

\* KeyboardInterrupt is delivered at the current position.  It is not an
\* Exception, so message_processing.main's handler does not catch it; in
\* server.main only the try statement of lines 46-59 handles it.
Interrupt ==
  /\ exit = "running" /\ pc \in Interruptible
  /\ intrAt' = pc
  /\ IF prog = "server" /\ pc \in SrvTry
       THEN SrvHandler("KeyboardInterrupt")
       ELSE Uncaught("KeyboardInterrupt") /\ UNCHANGED <<closes, iface, handles>>
  /\ UNCHANGED <<prog, args, file, system_config, ports, state, giv, loopv>>

\* ------------------------------------------------------- specifications
\* The programs as started: server.main from the command line and
\* message_processing.main from its caller.  server.main never gets past
\* line 42 (the merged configuration has no 'state' entry), so the steps of
\* its loop are not among the steps of this specification.
Next == SrvInit \/ GIPass \/ GISleep \/ PortsChange \/ SrvLookup
        \/ MpFetch \/ MpSend \/ MpSleep \/ Interrupt

Spec == Init /\ [][Next]_vars

\* The try statement of server.main (lines 46-59) on its own: it starts at
\* line 46 with the transport get_interface returned and a state code bound,
\* as the loop is written to run.
InitLoop ==
  /\ exit = "running" /\ cause = "none"
  /\ closes = 0 /\ intrAt = "none"
  /\ LoopStart
  /\ prog = "server" /\ pc = "srv_fetch"
  /\ args = DefaultArgs /\ file = DefaultFile
  /\ state \in {"IL", "WI"}
  /\ system_config = [merge_config(initialize_config(file), args) EXCEPT !["state"] = state]
  /\ ports \in PortLists
  /\ iface = [status |-> "open", kind |-> "serial", target |-> "/dev/ttyUSB0"]
  /\ handles = 1
  /\ opens = 1 /\ delays = 0 /\ delaySecs = 0 /\ passes = 1 /\ enums = 0
  /\ permCount = 0 /\ portsChanged = FALSE /\ lastEnum = <<>>
  /\ lastSel = Select(system_config, ports) /\ lastOpen = "ok" /\ errNames = <<>>

NextLoop == SrvFetch \/ SrvSend \/ SrvSleep \/ Interrupt

LoopSpec == InitLoop /\ [][NextLoop]_vars

\* ================================================================ claims
\* the per-cycle failures: non-success status, undecodable payload, rejected send
PerCycleFailures == {"HTTPError", "JSONDecodeError", "SendFailure"}

SerialNoPort ==
  /\ system_config["interface_type"] = "serial"
  /\ ~Truthy(system_config["port"])

\* get_interface was called by server.main and its first pass is over
FirstPassOver == prog = "server" /\ passes = 1 /\ pc # "gi_try"

CycleOver == cycle > 0 /\ pc \notin {"mp_send", "srv_send"} /\ intrAt = "none"

\* the formatting the running loop applies to an alert
Formatted(a) == IF prog = "mp" THEN format_alert_message(a) ELSE srv_format(a)

\* C1: a per-cycle failure (non-success status, undecodable payload,
\* rejected send) never ends a polling loop: no program has ended because
\* of such a failure.
C1_PerCycleFailureKeepsLoop ==
  exit # "running" => cause \notin PerCycleFailures

\* C2: whenever the program has ended while holding a transport that was
\* opened, close() has been called on it exactly once.
C2_ClosedOnceOnExit ==
  (exit # "running" /\ iface.status # "none") => closes = 1

\* C3: an interrupt that arrives in the sleep phase of a polling loop ends
\* the program with close() called exactly once and a clean exit status.
C3_InterruptInSleepClosesCleanly ==
  intrAt \in {"mp_sleep", "srv_sleep"} => (closes = 1 /\ exit = "returned")

\* C4: with the ports unchanged, a get_interface call whose opens raised
\* permission-denied N times and then succeeded has made N + 1 opens and
\* N delays of 5 seconds; and while the latest open failed with
\* permission-denied the call is still retrying (unless interrupted).
C4_PermissionRetries ==
  /\ (prog = "server" /\ lastOpen = "ok" /\ ~portsChanged) =>
        /\ iface.status = "open"
        /\ opens = permCount + 1
        /\ passes = permCount + 1
        /\ delays = permCount
        /\ delaySecs = RetryDelay * permCount
  /\ (lastOpen = "PermissionError" /\ intrAt = "none") =>
        /\ exit = "running" /\ pc \in {"gi_sleep", "gi_try"}
        /\ delays \in {permCount - 1, permCount}

C4_Witness ==
  prog = "server" /\ lastOpen = "ok" /\ ~portsChanged /\ permCount >= 2
  /\ delaySecs >= 10

\* C5: serial, no explicit port, two or more ports enumerated on the first
\* pass: the call raises at once, the error names every enumerated port, and
\* no open and no delay has happened.
C5_AmbiguousPortsFailFast ==
  (FirstPassOver /\ SerialNoPort /\ Len(lastEnum) >= 2) =>
      /\ exit = "uncaught" /\ cause = "MultiplePorts"
      /\ errNames = lastEnum
      /\ opens = 0 /\ delays = 0

C5_Witness ==
  FirstPassOver /\ SerialNoPort /\ Len(lastEnum) = 2 /\ cause = "MultiplePorts"

\* C6: serial without port and no port enumerated on the first pass, tcp
\* with an empty or missing hostname, and an interface type other than
\* serial and tcp each end get_interface on its first pass, with no open
\* and no delay, and the error ends the program uncaught.
C6_ConfigErrorsFatal ==
  /\ (FirstPassOver /\ SerialNoPort /\ enums = 1 /\ Len(lastEnum) = 0) =>
        (exit = "uncaught" /\ cause = "NoPorts" /\ opens = 0 /\ delays = 0)
  /\ (prog = "server" /\ passes >= 1 /\ system_config["interface_type"] = "tcp"
        /\ ~Truthy(system_config["hostname"])) =>
        (exit = "uncaught" /\ cause = "MissingHostname" /\ passes = 1
           /\ opens = 0 /\ delays = 0)
  /\ (prog = "server" /\ passes >= 1
        /\ system_config["interface_type"] \notin {"serial", "tcp"}) =>
        (exit = "uncaught" /\ cause = "InvalidType" /\ passes = 1
           /\ opens = 0 /\ delays = 0)

C6_Witness ==
  prog = "server" /\ exit = "uncaught" /\ cause = "MissingHostname"
  /\ system_config["hostname"] = "" /\ passes = 1

\* C7: serial, no explicit port, exactly one port enumerated on the first
\* pass and its open succeeds: the transport returned is bound to that
\* port's device, after one open, no delay and no error.
C7_SinglePortOpened ==
  (FirstPassOver /\ SerialNoPort /\ Len(lastEnum) = 1 /\ lastOpen = "ok") =>
      /\ iface = [status |-> "open", kind |-> "serial", target |-> lastEnum[1]]
      /\ opens = 1 /\ delays = 0 /\ permCount = 0 /\ errNames = <<>>

C7_Witness ==
  FirstPassOver /\ SerialNoPort /\ lastEnum = <<"/dev/ttyACM0">>
  /\ lastOpen = "ok" /\ iface.target = "/dev/ttyACM0"

\* C8: for a feed response whose status is not 200, the fetch of each
\* polling loop returns an empty result and does not raise.
C8_NonSuccessIsEmpty ==
  (cycle > 0 /\ lastResp.net = "ok" /\ lastResp.status # 200) =>
      /\ fetchRes = Returned(<<>>)
      /\ mp_fetch_weather_alerts(lastResp) = Returned(<<>>)
      /\ ci_fetch_weather_alerts(lastResp) = Returned(<<>>)

\* C9: when a cycle whose fetch succeeded is over, every alert of the
\* fetched sequence has been given a send attempt, whichever formatting or
\* send raised.
C9_EveryAlertAttempted ==
  (CycleOver /\ fetchRes.raised = "none") => attempted = 1 .. Len(alerts)

\* C10: when a cycle whose fetch succeeded with n alerts is over and no send
\* failed in it, the transport has been sent exactly n messages: the
\* formatted message of each alert, in feed order, to the broadcast address.
C10_OneSendPerAlert ==
  (CycleOver /\ fetchRes.raised = "none" /\ cycleErr # "SendFailure") =>
      /\ Len(sent) = Len(alerts)
      /\ \A i \in 1 .. Len(alerts) :
           sent[i] = [text |-> Formatted(alerts[i]).value, dest |-> BROADCAST_NUM]

\* exceptions the formatting of an alert can raise
FormatErrors == {"KeyError", "TypeError", "AttributeError"}

\* the text a field contributes: its value, or the fixed placeholder
Placeholder(f) ==
  CASE f = "headline"    -> "No headline"
    [] f = "description" -> "No description"
    [] f = "instruction" -> "No instruction"
    [] OTHER             -> "Unknown Event"
Shown(a, f) == IF a.props = "dict" /\ f \in a.have THEN <<a.id, f>> ELSE Placeholder(f)

\* C11: formatting an alert from which headline, description, instruction
\* or the whole properties object is missing never raises, and every message
\* sent carries the value or the placeholder of each of these fields.
C11_PlaceholdersNeverRaise ==
  /\ (cycleErr \in FormatErrors /\ idx <= Len(alerts)) =>
        alerts[idx].props = "null"
  /\ \A i \in 1 .. Len(sent) :
        IF prog = "mp"
          THEN /\ sent[i].text[3] = Shown(alerts[i], "headline")
               /\ sent[i].text[5] = Shown(alerts[i], "description")
               /\ sent[i].text[7] = Shown(alerts[i], "instruction")
          ELSE /\ sent[i].text[3] = Shown(alerts[i], "headline")
               /\ sent[i].text[4] = Shown(alerts[i], "description")

\* C12: a value given on the command line is the value get_interface uses:
\* --interface-type is the type it dispatches on, --port the serial port it
\* opens, and --host the host it opens the TCP transport to.
C12_CliOverridesWhatIsRead ==
  (prog = "server" /\ passes >= 1) =>
     /\ (args.interface_type # None) =>
           system_config["interface_type"] = args.interface_type
     /\ (system_config["interface_type"] = "serial" /\ args.port # None) =>
           (lastSel.act = "open" /\ lastSel.target = args.port)
     /\ (system_config["interface_type"] = "tcp" /\ args.host # None) =>
           (lastSel.act = "open" /\ lastSel.target = args.host
              /\ cause # "MissingHostname")

\* C13: at most one transport handle is open in every state; get_interface
\* makes a further open only after the previous one failed and was retried,
\* and it returns on the first open that succeeds.
C13_AtMostOneHandle ==
  /\ handles <= 1
  /\ (prog = "server") =>
        /\ opens <= permCount + 1
        /\ (lastOpen = "ok") =>
              (opens = permCount + 1 /\ pc \notin {"gi_try", "gi_sleep"})

C13_Witness ==
  prog = "server" /\ handles = 1 /\ iface.status = "open" /\ permCount >= 1

\* C14: in message_processing.main one full interval sleep lies between the
\* starts of two consecutive fetches, whether the earlier cycle failed or not:
\* when the loop is about to fetch, every cycle so far was followed by a sleep.
C14_FailedCycleStillSleeps ==
  (prog = "mp" /\ exit = "running") =>
      /\ sleeps >= cycle - 1
      /\ (pc = "mp_fetch") => sleeps = cycle

\* C15: once get_interface has returned a transport to server.main, nothing
\* fails before the loop: the program is still running (unless interrupted)
\* and the loop fetches for the location code of the merged configuration.
C15_LoopReachedAfterOpen ==
  (prog = "server" /\ lastOpen = "ok" /\ intrAt = "none" /\ cycleErr = "none") =>
      /\ exit = "running"
      /\ (pc # "srv_lookup") => state = system_config["location"]

\* C16: permission-denied is the only open failure retried: any other
\* failure of an open ends get_interface (and the program) on that attempt,
\* and every delay and every further pass follows a permission-denied open.
C16_OnlyPermissionRetried ==
  /\ (lastOpen = "OSError") =>
        /\ exit = "uncaught" /\ cause = "OSError" /\ pc = "done"
        /\ opens = permCount + 1 /\ delays = permCount
  /\ (prog = "server") => (delays <= permCount /\ passes <= permCount + 1)

C16_Witness ==
  lastOpen = "OSError" /\ exit = "uncaught" /\ permCount = 1 /\ delays = 1

SerialWithPort ==
  /\ system_config["interface_type"] = "serial"
  /\ Truthy(system_config["port"])

\* C17: serial with a non-empty explicit port: every pass opens exactly that
\* port and the ports are never enumerated, however many are present.
C17_ExplicitPortOnly ==
  (prog = "server" /\ passes >= 1 /\ SerialWithPort) =>
      /\ enums = 0 /\ lastEnum = <<>>
      /\ lastSel.act = "open" /\ lastSel.target = system_config["port"]
      /\ opens = passes
      /\ cause \notin {"NoPorts", "MultiplePorts"}
      /\ (iface.status # "none") => iface.target = system_config["port"]

C17_Witness ==
  prog = "server" /\ SerialWithPort /\ iface.status = "open"
  /\ portsChanged /\ Len(ports) = 0 /\ passes >= 2

\* C18: the loop keeps no memory of what it sent: when a cycle has run to
\* its end without error, every alert of that cycle's fetch result has been
\* sent, those already sent in an earlier cycle included, so what a cycle
\* sends is fixed by its own fetch result.
C18_NoMemoryOfSent ==
  (CycleOver /\ fetchRes.raised = "none" /\ cycleErr = "none") =>
      /\ Len(sent) = Len(alerts)
      /\ \A i \in 1 .. Len(alerts) :
           (alerts[i].id \in seen) =>
              sent[i] = [text |-> Formatted(alerts[i]).value, dest |-> BROADCAST_NUM]

C18_Witness ==
  /\ prog = "mp" /\ CycleOver /\ fetchRes.raised = "none" /\ cycleErr = "none"
  /\ cycle >= 2 /\ Len(alerts) >= 1
  /\ alerts[1].id \in seen
  /\ Len(sent) >= 1 /\ sent[1].text = format_alert_message(alerts[1]).value

\* C19: every pass of get_interface without an explicit port enumerates the
\* ports anew and acts on that enumeration: it opens the single port found
\* now, or raises the no-ports or multiple-ports error, also after retries.
C19_RetryReEnumerates ==
  [][ (prog = "server" /\ passes' = passes + 1 /\ SerialNoPort) =>
        /\ enums' = enums + 1
        /\ lastEnum' = ports
        /\ (Len(ports) = 1) => (lastSel'.act = "open" /\ lastSel'.target = ports[1])
        /\ (Len(ports) = 0) => (exit' = "uncaught" /\ cause' = "NoPorts")
        /\ (Len(ports) >= 2) => (exit' = "uncaught" /\ cause' = "MultiplePorts"
                                   /\ errNames' = ports) ]_vars

C19_Witness ==
  prog = "server" /\ SerialNoPort /\ exit = "uncaught"
  /\ cause \in {"NoPorts", "MultiplePorts"} /\ permCount >= 1 /\ delays >= 1

\* C20: the transport is used only while open: every step that fetches or
\* sends starts with the handle open and close() not yet called.
C20_UsedOnlyWhileOpen ==
  [][ (cycle' # cycle \/ attempted' # attempted \/ sent' # sent) =>
        (iface.status = "open" /\ closes = 0 /\ handles = 1) ]_vars

C20_Witness ==
  prog = "server" /\ closes = 1 /\ iface.status = "closed" /\ handles = 0
  /\ cycle >= 2 /\ Len(sent) >= 1
====
